---- MODULE Spec2Model ----
(***************************************************************************)
(* The 'direct' backend of cumin: the query grammar (a pyparsing grammar,  *)
(* modelled character by character) and the DirectQuery tree builder      *)
(* (_parse_token), run by one or more parser instances.                    *)
(*                                                                         *)
(* A query string is a sequence of one-character strings.  A position in   *)
(* it is 1-based: loc is the index of the next character to read.          *)
(***************************************************************************)
EXTENDS Integers, Sequences, FiniteSets, TLC

(***************************************************************************)
(* Character classes.  The letters and digits are the part of pp.alphanums *)
(* that the queries of this model are written with.                        *)
(***************************************************************************)
LowerLetters == <<"a", "b", "d", "h", "n", "o", "r", "t", "x">>
UpperLetters == <<"A", "B", "D", "H", "N", "O", "R", "T", "X">>
DigitChars == <<"0", "1", "2", "3", "4", "5", "6", "7", "8", "9">>

Range(f) == {f[i] : i \in DOMAIN f}

alphanums == Range(LowerLetters) \cup Range(UpperLetters) \cup Range(DigitChars)

\* pyparsing's default whitespace characters (" \n\t\r")
whiteChars == {" ", "\t", "\n", "\r"}

\* Keyword.DEFAULT_KEYWORD_CHARS: a keyword ends where no such character follows
identChars == alphanums \cup {"_", "$"}

\* the characters of pp.Word(pp.alphanums + '-_.,!&^[]')
hostChars == alphanums \cup {"-", "_", ".", ",", "!", "&", "^", "[", "]"}

\* str.upper() on one character
upper(c) ==
    IF \E i \in DOMAIN LowerLetters : LowerLetters[i] = c
    THEN UpperLetters[CHOOSE i \in DOMAIN LowerLetters : LowerLetters[i] = c]
    ELSE c

None == "None"

(***************************************************************************)
(* pyparsing primitives.  Every parse returns [ok, loc, ...]: whether it   *)
(* matched and the position after the match.                               *)
(***************************************************************************)
NoMatch(loc) == [ok |-> FALSE, loc |-> loc]

\* ParserElement.preParse: skip leading whitespace
RECURSIVE preParse(_, _)
preParse(s, loc) ==
    IF loc <= Len(s) /\ s[loc] \in whiteChars THEN preParse(s, loc + 1) ELSE loc

\* CaselessKeyword.parseImpl at loc, no whitespace skipped: the text matches in
\* any letter case and no identifier character follows it
CaselessKeyword(kw, s, loc) ==
    /\ loc + Len(kw) - 1 <= Len(s)
    /\ \A i \in 1..Len(kw) : upper(s[loc + i - 1]) = upper(kw[i])
    /\ (loc + Len(kw) > Len(s) \/ upper(s[loc + Len(kw)]) \notin identChars)

\* pp.Literal, after skipping whitespace
Literal(c, s, loc0) ==
    LET loc == preParse(s, loc0)
    IN  IF loc <= Len(s) /\ s[loc] = c
        THEN [ok |-> TRUE, loc |-> loc + 1]
        ELSE NoMatch(loc0)

RECURSIVE WordEnd(_, _)
WordEnd(s, loc) ==
    IF loc <= Len(s) /\ s[loc] \in hostChars THEN WordEnd(s, loc + 1) ELSE loc

\* pp.Word: the longest run of host characters, at least one, after whitespace
Word(s, loc0) ==
    LET loc == preParse(s, loc0)
        end == WordEnd(s, loc)
    IN  IF end > loc
        THEN [ok |-> TRUE, loc |-> end, val |-> SubSeq(s, loc, end - 1)]
        ELSE NoMatch(loc0)

(***************************************************************************)
(* grammar(): the tokens.                                                  *)
(***************************************************************************)
KwAndNot == [text |-> <<"a", "n", "d", " ", "n", "o", "t">>, match |-> "and not"]
KwAnd == [text |-> <<"a", "n", "d">>, match |-> "and"]
KwXor == [text |-> <<"x", "o", "r">>, match |-> "xor"]
KwOr == [text |-> <<"o", "r">>, match |-> "or"]

\* MatchFirst over keywords: whitespace is skipped once, then the first
\* alternative that matches wins and yields the keyword as it was defined
MatchFirst(kws, s, loc0) ==
    LET loc == preParse(s, loc0)
        hits == {i \in DOMAIN kws : CaselessKeyword(kws[i].text, s, loc)}
    IN  IF hits = {}
        THEN NoMatch(loc0)
        ELSE LET i == CHOOSE j \in hits : \A k \in hits : j <= k
             IN  [ok |-> TRUE, loc |-> loc + Len(kws[i].text), val |-> kws[i].match]

\* a plausible slip: 'and' listed before 'and not'
booleanAndFirst(s, loc) == MatchFirst(<<KwAnd, KwAndNot, KwXor, KwOr>>, s, loc)

\* boolean = (CaselessKeyword('and not') | 'and' | 'xor' | 'or')('bool')
boolean(s, loc) == MatchFirst(<<KwAndNot, KwAnd, KwXor, KwOr>>, s, loc)

\* an element of a ParseResults list: a plain string, or a nested ParseResults
\* (a pp.Group) with its named results (asDict) and its own list
Str(v) == [isstr |-> TRUE, val |-> v]
Group(names, items) == [isstr |-> FALSE, dict |-> names, items |-> items]

\* a plausible slip: no negative lookahead, any word is a host
hostsNoLookahead(s, loc) ==
    LET w == Word(s, loc)
    IN  IF w.ok
        THEN [ok |-> TRUE, loc |-> w.loc, dict |-> [hosts |-> <<w.val>>],
              items |-> <<Str(w.val)>>]
        ELSE NoMatch(loc)

\* hosts = (~(boolean) + pp.Word(pp.alphanums + '-_.,!&^[]'))('hosts')
hosts(s, loc) ==
    IF boolean(s, loc).ok
    THEN NoMatch(loc)
    ELSE LET w == Word(s, loc)
         IN  IF w.ok
             THEN [ok |-> TRUE, loc |-> w.loc, dict |-> [hosts |-> <<w.val>>],
                   items |-> <<Str(w.val)>>]
             ELSE NoMatch(loc)

lpar(s, loc) == Literal("(", s, loc)
rpar(s, loc) == Literal(")", s, loc)

(***************************************************************************)
(* grammar(): the recursive part.                                          *)
(*   item = hosts | lpar + full_grammar + rpar                             *)
(*   full_grammar << Group(item) + ZeroOrMore(Group(boolean + item))       *)
(* An alternative that fails part-way leaves the position where it began.  *)
(***************************************************************************)
RECURSIVE item(_, _)
RECURSIVE full_grammar(_, _)
RECURSIVE ZeroOrMore(_, _, _)

\* a plausible slip: the closing parenthesis is optional
itemNoClose(s, loc) ==
    LET h == hosts(s, loc)
    IN  IF h.ok THEN h
        ELSE LET l == lpar(s, loc)
             IN  IF ~l.ok THEN NoMatch(loc)
                 ELSE LET g == full_grammar(s, l.loc)
                      IN  IF ~g.ok THEN NoMatch(loc)
                          ELSE LET r == rpar(s, g.loc)
                               IN  [ok |-> TRUE, loc |-> IF r.ok THEN r.loc ELSE g.loc,
                                    dict |-> [open_subgroup |-> "(",
                                              close_subgroup |-> ")"],
                                    items |-> <<Str(<<"(">>)>> \o g.items
                                              \o <<Str(<<")">>)>>]

item(s, loc) ==
    LET h == hosts(s, loc)
    IN  IF h.ok THEN h
        ELSE LET l == lpar(s, loc)
             IN  IF ~l.ok THEN NoMatch(loc)
                 ELSE LET g == full_grammar(s, l.loc)
                      IN  IF ~g.ok THEN NoMatch(loc)
                          ELSE LET r == rpar(s, g.loc)
                               IN  IF ~r.ok THEN NoMatch(loc)
                                   ELSE [ok |-> TRUE, loc |-> r.loc,
                                         dict |-> [open_subgroup |-> "(",
                                                   close_subgroup |-> ")"],
                                         items |-> <<Str(<<"(">>)>> \o g.items
                                                   \o <<Str(<<")">>)>>]

\* ZeroOrMore(Group(boolean + item)): repeat while a whole repetition matches
ZeroOrMore(s, loc, acc) ==
    LET b == boolean(s, loc)
    IN  IF ~b.ok THEN [ok |-> TRUE, loc |-> loc, items |-> acc]
        ELSE LET it == item(s, b.loc)
             IN  IF ~it.ok THEN [ok |-> TRUE, loc |-> loc, items |-> acc]
                 ELSE ZeroOrMore(s, it.loc,
                          Append(acc, Group([bool |-> b.val] @@ it.dict,
                                            <<Str(b.val)>> \o it.items)))

full_grammar(s, loc) ==
    LET first == item(s, loc)
    IN  IF ~first.ok THEN NoMatch(loc)
        ELSE ZeroOrMore(s, first.loc, <<Group(first.dict, first.items)>>)

\* grammar.parseString(query_string, parseAll=True): the whole string must match
parseString(s) ==
    LET g == full_grammar(s, 1)
    IN  IF g.ok /\ preParse(s, g.loc) > Len(s)
        THEN [ok |-> TRUE, items |-> g.items]
        ELSE [ok |-> FALSE, items |-> <<>>]

(***************************************************************************)
(* NodeSet.fromlist: the ClusterShell expansion of a host pattern into a   *)
(* set of host names.  Patterns are groups joined by the set operators     *)
(* , ! & ^ applied left to right; a group is a name with at most one       *)
(* bracketed range list, [n], [lo-hi] or a comma list of these.            *)
(***************************************************************************)
SetOps == {",", "!", "&", "^"}

Count(s, c, i) == Cardinality({j \in 1..i : s[j] = c})
BracketDepth(s, i) == Count(s, "[", i) - Count(s, "]", i)

IsDigit(c) == c \in Range(DigitChars)
DigitValue(c) == (CHOOSE i \in DOMAIN DigitChars : DigitChars[i] = c) - 1

RECURSIVE Number(_)
Number(ds) ==
    IF ds = <<>> THEN 0
    ELSE 10 * Number(SubSeq(ds, 1, Len(ds) - 1)) + DigitValue(ds[Len(ds)])

RECURSIVE Digits(_)
Digits(n) ==
    IF n < 10 THEN <<DigitChars[n + 1]>>
    ELSE Digits(n \div 10) \o <<DigitChars[(n % 10) + 1]>>

RECURSIVE Pad(_, _)
Pad(ds, width) == IF Len(ds) >= width THEN ds ELSE Pad(<<"0">> \o ds, width)

\* the pieces of s between the positions in cuts, in order
RECURSIVE Pieces(_, _, _)
Pieces(s, cuts, from) ==
    IF {c \in cuts : c >= from} = {}
    THEN <<SubSeq(s, from, Len(s))>>
    ELSE LET c == CHOOSE k \in cuts : k >= from /\ \A m \in cuts : m >= from => k <= m
         IN  <<SubSeq(s, from, c - 1)>> \o Pieces(s, cuts, c + 1)

\* one element of a range list: n, or lo-hi with lo <= hi; zero padding of lo is kept
RangeOf(r) ==
    LET dash == {i \in 1..Len(r) : r[i] = "-"}
        lo == IF dash = {} THEN r ELSE SubSeq(r, 1, (CHOOSE i \in dash : TRUE) - 1)
        hi == IF dash = {} THEN r ELSE SubSeq(r, (CHOOSE i \in dash : TRUE) + 1, Len(r))
        width == IF Len(lo) > 1 /\ lo[1] = "0" THEN Len(lo) ELSE 1
    IN  IF \/ Cardinality(dash) > 1
           \/ lo = <<>> \/ hi = <<>>
           \/ \E i \in 1..Len(lo) : ~IsDigit(lo[i])
           \/ \E i \in 1..Len(hi) : ~IsDigit(hi[i])
           \/ Number(lo) > Number(hi)
        THEN [ok |-> FALSE, set |-> {}]
        ELSE [ok |-> TRUE, set |-> {Pad(Digits(n), width) : n \in Number(lo)..Number(hi)}]

\* one group: a plain name, or prefix[rangelist]suffix
ExpandGroup(g) ==
    LET opens == {i \in 1..Len(g) : g[i] = "["}
        closes == {i \in 1..Len(g) : g[i] = "]"}
    IN  IF g = <<>> THEN [ok |-> FALSE, set |-> {}]
        ELSE IF opens = {} /\ closes = {} THEN [ok |-> TRUE, set |-> {g}]
        ELSE IF Cardinality(opens) # 1 \/ Cardinality(closes) # 1
            THEN [ok |-> FALSE, set |-> {}]
        ELSE LET o == CHOOSE i \in opens : TRUE
                 c == CHOOSE i \in closes : TRUE
             IN  IF c < o THEN [ok |-> FALSE, set |-> {}]
                 ELSE LET inner == SubSeq(g, o + 1, c - 1)
                          parts == Pieces(inner, {i \in 1..Len(inner) : inner[i] = ","}, 1)
                          rs == [i \in DOMAIN parts |-> RangeOf(parts[i])]
                      IN  IF \E i \in DOMAIN rs : ~rs[i].ok
                          THEN [ok |-> FALSE, set |-> {}]
                          ELSE [ok |-> TRUE,
                                set |-> {SubSeq(g, 1, o - 1) \o n \o SubSeq(g, c + 1, Len(g)) :
                                           n \in UNION {rs[i].set : i \in DOMAIN rs}}]

ApplySetOp(op, acc, set) ==
    CASE op = "," -> acc \cup set
      [] op = "!" -> acc \ set
      [] op = "&" -> acc \cap set
      [] op = "^" -> (acc \ set) \cup (set \ acc)

RECURSIVE ExpandFrom(_, _, _, _)
ExpandFrom(groups, ops, i, acc) ==
    IF i > Len(groups) THEN [ok |-> TRUE, set |-> acc]
    ELSE LET g == ExpandGroup(groups[i])
         IN  IF ~g.ok THEN [ok |-> FALSE, set |-> {}]
             ELSE ExpandFrom(groups, ops, i + 1, ApplySetOp(ops[i], acc, g.set))

NodeSet(pattern) ==
    LET cuts == {i \in 1..Len(pattern) :
                    pattern[i] \in SetOps /\ BracketDepth(pattern, i) = 0}
        bad == \E i \in 1..Len(pattern) : BracketDepth(pattern, i) \notin {0, 1}
        groups == Pieces(pattern, cuts, 1)
        ops == [i \in DOMAIN groups |->
                   IF i = 1 THEN ","
                   ELSE pattern[CHOOSE c \in cuts :
                                   Cardinality({d \in cuts : d <= c}) = i - 1]]
    IN  IF bad \/ pattern = <<>> THEN [ok |-> FALSE, set |-> {}]
        ELSE ExpandFrom(groups, ops, 1, {})

\* NodeSet.fromlist(token_dict['hosts']): the union over the list's patterns
RECURSIVE fromlist(_)
fromlist(list) ==
    IF list = <<>> THEN [ok |-> TRUE, set |-> {}]
    ELSE LET h == NodeSet(Head(list))
             t == fromlist(Tail(list))
         IN  IF h.ok /\ t.ok THEN [ok |-> TRUE, set |-> h.set \cup t.set]
             ELSE [ok |-> FALSE, set |-> {}]

(***************************************************************************)
(* The aggregation framework DirectQuery extends (BaseQueryAggregator):    *)
(* the stack of in-progress groups, the top being the current group, and   *)
(* the evaluation of a finished tree.                                      *)
(***************************************************************************)
\* element['hosts']: None, or a NodeSet
NoHosts == <<>>
SomeHosts(set) == <<set>>

_get_stack_element == [hosts |-> NoHosts, children |-> <<>>, bool |-> None]

\* push a new empty group: it becomes the current group
_open_subgroup(stk) == Append(stk, _get_stack_element)

\* pop the current group and append it, as an operand, to its parent
_close_subgroup(stk) ==
    [SubSeq(stk, 1, Len(stk) - 1) EXCEPT
        ![Len(stk) - 1].children = Append(@, stk[Len(stk)])]

\* and = intersection, or = union, xor = symmetric difference, and not =
\* difference; the first operand of a group has no operator
_aggregate_hosts(acc, element_hosts, bool) ==
    CASE bool = None \/ bool = "or" -> acc \cup element_hosts
      [] bool = "and" -> acc \cap element_hosts
      [] bool = "and not" -> acc \ element_hosts
      [] bool = "xor" -> (acc \ element_hosts) \cup (element_hosts \ acc)

\* the operands of a group combine strictly left to right
RECURSIVE _loop_stack(_, _)
RECURSIVE LoopChildren(_, _, _)
LoopChildren(acc, children, i) ==
    IF i > Len(children) THEN acc
    ELSE LoopChildren(_loop_stack(acc, children[i]), children, i + 1)

_loop_stack(acc, element) ==
    LET element_hosts ==
            IF element.hosts = NoHosts
            THEN LoopChildren({}, element.children, 1)
            ELSE element.hosts[1]
    IN  _aggregate_hosts(acc, element_hosts, element.bool)

_execute(root) == _loop_stack({}, root)

(***************************************************************************)
(* The queries.  A query is typed as a sequence of lexemes (words,         *)
(* operators, parentheses) separated by single spaces.                     *)
(***************************************************************************)
RECURSIVE Join(_)
Join(ls) ==
    IF ls = <<>> THEN <<>>
    ELSE IF Len(ls) = 1 THEN ls[1]
    ELSE ls[1] \o <<" ">> \o Join(Tail(ls))

LexSeqs(L, n) == UNION {[1..k -> L] : k \in 0..n}

LPar == <<"(">>
RPar == <<")">>
WordA == <<"a">>
WordB == <<"b">>
WordInverted == <<"x", "[", "5", "-", "1", "]">>

Keywords == <<KwAndNot, KwAnd, KwXor, KwOr>>

\* every way of writing a text in upper and lower case letters
CaseVariants(text) ==
    {[i \in DOMAIN text |-> IF b[i] THEN upper(text[i]) ELSE text[i]] :
        b \in [DOMAIN text -> BOOLEAN]}

MaxTokens == 5
MaxNestTokens == 7
MaxOperands == 3
MaxSuffix == 1
MaxConcTokens == 5

\* any sequence of lexemes, well formed or not
StructLexemes == {LPar, RPar, KwAnd.text, WordA, WordInverted}
StructQueries(n) == LexSeqs(StructLexemes, n)

\* longer sequences that open with a parenthesis, for deeper nesting
NestLexemes == {LPar, RPar, KwXor.text, WordB}
NestQueries(n) == {<<LPar>> \o t : t \in LexSeqs(NestLexemes, n - 1)}

\* flat queries w (op w)*, and a word combined with a parenthesised pair
OpWords == {WordA, WordB, <<"a", ",", "b">>}
OpTexts == {Keywords[i].text : i \in DOMAIN Keywords}
RECURSIVE FlatQueries(_)
FlatQueries(n) ==
    IF n = 1 THEN {<<w>> : w \in OpWords}
    ELSE FlatQueries(n - 1) \cup
         {q \o <<o, w>> : q \in {f \in FlatQueries(n - 1) : Len(f) = 2 * n - 3},
                          o \in OpTexts, w \in OpWords}
ParenQueries ==
    {<<a, o1, LPar, b, o2, c, RPar>> : a \in {WordA}, b \in {WordA, WordB}, c \in {WordB},
                                       o1 \in OpTexts, o2 \in OpTexts}
OpsQueries(n) == FlatQueries(n) \cup ParenQueries

\* 'and not' in every letter case between two operands, and single words that
\* begin with the letters of a keyword
AndNotQueries ==
    {<<a, v, b>> : a \in {WordA, WordB}, v \in CaseVariants(KwAndNot.text),
                   b \in {WordA, WordB}}
    \cup {<<WordA, v, LPar, WordB, RPar>> : v \in CaseVariants(KwAndNot.text)}
KeywordPrefixes == UNION {CaseVariants(t) : t \in {KwAnd.text, KwXor.text, KwOr.text}}
Suffixes(n) == UNION {[1..k -> hostChars] : k \in 1..n}
PrefixedWords(n) == {k \o t : k \in KeywordPrefixes, t \in Suffixes(n)}
LexQueries(n) == AndNotQueries \cup {<<w>> : w \in PrefixedWords(n)}

\* the queries the grammar accepts, for two parsers running at once
ConcLexemes == {LPar, RPar, KwAnd.text, WordA, WordInverted}
ConcQueries ==
    {q : q \in {ls \in LexSeqs(ConcLexemes, MaxConcTokens) : parseString(Join(ls)).ok}}

(***************************************************************************)
(* The parser instances.  Each DirectQuery object has its own stack; the   *)
(* call stack of _build and _parse_token is frames: one frame per loop     *)
(* over a token list, i being the index of the next element to visit.      *)
(***************************************************************************)
VARIABLES input, pc, error, frames, stack, result

vars == <<input, pc, error, frames, stack, result>>

NoResult == <<>>

InitWith(parsers, queries) ==
    /\ input \in [parsers -> queries]
    /\ pc = [p \in parsers |-> "ready"]
    /\ error = [p \in parsers |-> None]
    /\ frames = [p \in parsers |-> <<>>]
    /\ stack = [p \in parsers |-> <<>>]
    /\ result = [p \in parsers |-> NoResult]

Init == InitWith({1}, StructQueries(MaxTokens) \cup NestQueries(MaxNestTokens))

\* an exception propagates to the caller of execute(): every frame is left
Raise(p, kind) ==
    /\ pc' = [pc EXCEPT ![p] = "failed"]
    /\ error' = [error EXCEPT ![p] = kind]
    /\ frames' = [frames EXCEPT ![p] = <<>>]

\* the next element of a token list that is not a plain string (0: none)
NextToken(items, i) ==
    IF \E j \in i..Len(items) : ~items[j].isstr
    THEN CHOOSE j \in i..Len(items) :
            ~items[j].isstr /\ \A k \in i..(j - 1) : items[k].isstr
    ELSE 0

Top(p) == frames[p][Len(frames[p])]

\* _build: a fresh root group, the query parsed by the class's grammar, then
\* one _parse_token call per top-level token
_build(p) ==
    /\ pc[p] = "ready"
    /\ LET parsed == parseString(Join(input[p]))
       IN  /\ stack' = [stack EXCEPT ![p] = <<_get_stack_element>>]
           /\ IF ~parsed.ok
              THEN Raise(p, "InvalidQueryError")
              ELSE /\ pc' = [pc EXCEPT ![p] = "parsing"]
                   /\ frames' = [frames EXCEPT ![p] = <<[items |-> parsed.items, i |-> 1]>>]
                   /\ UNCHANGED error
    /\ UNCHANGED <<input, result>>

\* a plausible slip: the operator of a host token is not copied to its element
HostsBranchNoBool(p, token, j) ==
    LET nodes == fromlist(token.dict.hosts)
        element == [_get_stack_element EXCEPT !.hosts = SomeHosts(nodes.set)]
    IN  IF ~nodes.ok
        THEN Raise(p, "NodeSetParseError") /\ UNCHANGED stack
        ELSE /\ stack' = [stack EXCEPT ![p][Len(stack[p])].children = Append(@, element)]
             /\ frames' = [frames EXCEPT ![p][Len(frames[p])].i = j + 1]
             /\ UNCHANGED <<pc, error>>

\* a plausible slip: the operand is put in front of its siblings
HostsBranchPrepend(p, token, j) ==
    LET nodes == fromlist(token.dict.hosts)
        element == [_get_stack_element EXCEPT
                       !.hosts = SomeHosts(nodes.set),
                       !.bool = IF "bool" \in DOMAIN token.dict
                                THEN token.dict.bool ELSE @]
    IN  IF ~nodes.ok
        THEN Raise(p, "NodeSetParseError") /\ UNCHANGED stack
        ELSE /\ stack' = [stack EXCEPT ![p][Len(stack[p])].children = <<element>> \o @]
             /\ frames' = [frames EXCEPT ![p][Len(frames[p])].i = j + 1]
             /\ UNCHANGED <<pc, error>>

\* a plausible slip: a pattern that fails to expand is skipped and the loop goes on
HostsBranchSkipError(p, token, j) ==
    LET nodes == fromlist(token.dict.hosts)
        element == [_get_stack_element EXCEPT
                       !.hosts = SomeHosts(nodes.set),
                       !.bool = IF "bool" \in DOMAIN token.dict
                                THEN token.dict.bool ELSE @]
    IN  /\ stack' = IF nodes.ok
                    THEN [stack EXCEPT ![p][Len(stack[p])].children = Append(@, element)]
                    ELSE stack
        /\ frames' = [frames EXCEPT ![p][Len(frames[p])].i = j + 1]
        /\ UNCHANGED <<pc, error>>

\* a plausible slip: the current group is one object shared by every parser
HostsBranchShared(p, token, j) ==
    LET nodes == fromlist(token.dict.hosts)
        element == [_get_stack_element EXCEPT
                       !.hosts = SomeHosts(nodes.set),
                       !.bool = IF "bool" \in DOMAIN token.dict
                                THEN token.dict.bool ELSE @]
        owner == CHOOSE q \in DOMAIN stack :
                    /\ pc[q] = "parsing"
                    /\ \A r \in DOMAIN stack : pc[r] = "parsing" => q <= r
    IN  IF ~nodes.ok
        THEN Raise(p, "NodeSetParseError") /\ UNCHANGED stack
        ELSE /\ stack' = [stack EXCEPT ![owner][Len(stack[owner])].children =
                                          Append(@, element)]
             /\ frames' = [frames EXCEPT ![p][Len(frames[p])].i = j + 1]
             /\ UNCHANGED <<pc, error>>

\* _parse_token, 'hosts' in token_dict: the operand is appended to the current group
HostsBranch(p, token, j) ==
    LET nodes == fromlist(token.dict.hosts)
        element == [_get_stack_element EXCEPT
                       !.hosts = SomeHosts(nodes.set),
                       !.bool = IF "bool" \in DOMAIN token.dict
                                THEN token.dict.bool ELSE @]
    IN  IF ~nodes.ok
        THEN Raise(p, "NodeSetParseError") /\ UNCHANGED stack
        ELSE /\ stack' = [stack EXCEPT ![p][Len(stack[p])].children = Append(@, element)]
             /\ frames' = [frames EXCEPT ![p][Len(frames[p])].i = j + 1]
             /\ UNCHANGED <<pc, error>>

\* a plausible slip: the operator written before the parenthesis is dropped
SubgroupBranchNoBool(p, token, j) ==
    /\ stack' = [stack EXCEPT ![p] = _open_subgroup(@)]
    /\ frames' = [frames EXCEPT ![p] =
                     Append([@ EXCEPT ![Len(@)].i = j + 1],
                            [items |-> token.items, i |-> 1])]
    /\ UNCHANGED <<pc, error>>

\* the guard the code does not have: a nesting limit of two calls
SubgroupBranchDepthLimit(p, token, j) ==
    IF Len(frames[p]) > 2
    THEN Raise(p, "InvalidQueryError") /\ UNCHANGED stack
    ELSE /\ stack' = [stack EXCEPT ![p] =
                         [_open_subgroup(@) EXCEPT ![Len(@) + 1].bool =
                             IF "bool" \in DOMAIN token.dict THEN token.dict.bool ELSE @]]
         /\ frames' = [frames EXCEPT ![p] =
                          Append([@ EXCEPT ![Len(@)].i = j + 1],
                                 [items |-> token.items, i |-> 1])]
         /\ UNCHANGED <<pc, error>>

\* _parse_token, a subgroup: open it, give it the operator written before the
\* parenthesis, and start the loop over its subtokens
SubgroupBranch(p, token, j) ==
    /\ stack' = [stack EXCEPT ![p] =
                    [_open_subgroup(@) EXCEPT ![Len(@) + 1].bool =
                        IF "bool" \in DOMAIN token.dict THEN token.dict.bool ELSE @]]
    /\ frames' = [frames EXCEPT ![p] =
                     Append([@ EXCEPT ![Len(@)].i = j + 1],
                            [items |-> token.items, i |-> 1])]
    /\ UNCHANGED <<pc, error>>

\* one call of _parse_token on the next token of the running loop
_parse_token(p) ==
    /\ pc[p] = "parsing"
    /\ NextToken(Top(p).items, Top(p).i) # 0
    /\ LET j == NextToken(Top(p).items, Top(p).i)
           token == Top(p).items[j]
       IN  IF "hosts" \in DOMAIN token.dict
           THEN HostsBranch(p, token, j)
           ELSE IF {"open_subgroup", "close_subgroup"} \subseteq DOMAIN token.dict
           THEN SubgroupBranch(p, token, j)
           ELSE Raise(p, "InvalidQueryError") /\ UNCHANGED stack
    /\ UNCHANGED <<input, result>>

\* a plausible slip: the call returns without closing the subgroup
CloseSubgroupNoPop(p) ==
    /\ pc[p] = "parsing"
    /\ Len(frames[p]) > 1
    /\ NextToken(Top(p).items, Top(p).i) = 0
    /\ frames' = [frames EXCEPT ![p] = SubSeq(@, 1, Len(@) - 1)]
    /\ UNCHANGED <<input, pc, error, stack, result>>

\* the loop over a subgroup's subtokens is over: close the subgroup and return
CloseSubgroup(p) ==
    /\ pc[p] = "parsing"
    /\ Len(frames[p]) > 1
    /\ NextToken(Top(p).items, Top(p).i) = 0
    /\ IF Len(stack[p]) < 2 \/ stack[p][Len(stack[p])].children = <<>>
       THEN Raise(p, "InvalidQueryError") /\ UNCHANGED stack
       ELSE /\ stack' = [stack EXCEPT ![p] = _close_subgroup(@)]
            /\ frames' = [frames EXCEPT ![p] = SubSeq(@, 1, Len(@) - 1)]
            /\ UNCHANGED <<pc, error>>
    /\ UNCHANGED <<input, result>>

\* the loop of _build is over: the stack must hold the root alone; execute()
\* evaluates the tree and returns the hosts
Finish(p) ==
    /\ pc[p] = "parsing"
    /\ Len(frames[p]) = 1
    /\ NextToken(Top(p).items, Top(p).i) = 0
    /\ IF Len(stack[p]) # 1
       THEN Raise(p, "InvalidQueryError") /\ UNCHANGED result
       ELSE /\ pc' = [pc EXCEPT ![p] = "done"]
            /\ frames' = [frames EXCEPT ![p] = <<>>]
            /\ result' = [result EXCEPT ![p] = <<_execute(stack[p][1])>>]
            /\ UNCHANGED error
    /\ UNCHANGED <<input, stack>>

Next ==
    \/ \E p \in DOMAIN input : _build(p)
    \/ \E p \in DOMAIN input : _parse_token(p)
    \/ \E p \in DOMAIN input : CloseSubgroup(p)
    \/ \E p \in DOMAIN input : Finish(p)

Spec == Init /\ [][Next]_vars

\* operators, letter case and keyword-like words
InitLex == InitWith({1}, LexQueries(MaxSuffix))
SpecLex == InitLex /\ [][Next]_vars

\* flat and parenthesised combinations of operands, evaluated
InitOps == InitWith({1}, OpsQueries(MaxOperands))
SpecOps == InitOps /\ [][Next]_vars

\* two DirectQuery objects whose steps interleave
InitConc == InitWith({1, 2}, ConcQueries)
SpecConc == InitConc /\ [][Next]_vars

(***************************************************************************)
(* The recursion of _parse_token as one function: the group a token list   *)
(* builds when nothing else runs.                                          *)
(***************************************************************************)
RECURSIVE parse_tokens(_, _)
parse_tokens(items, group) ==
    IF items = <<>> THEN [ok |-> TRUE, group |-> group]
    ELSE LET token == Head(items)
         IN  IF token.isstr THEN parse_tokens(Tail(items), group)
             ELSE IF "hosts" \in DOMAIN token.dict
             THEN LET nodes == fromlist(token.dict.hosts)
                      element == [_get_stack_element EXCEPT
                                     !.hosts = SomeHosts(nodes.set),
                                     !.bool = IF "bool" \in DOMAIN token.dict
                                              THEN token.dict.bool ELSE @]
                  IN  IF ~nodes.ok THEN [ok |-> FALSE, group |-> group]
                      ELSE parse_tokens(Tail(items),
                               [group EXCEPT !.children = Append(@, element)])
             ELSE LET sub == parse_tokens(token.items,
                                 [_get_stack_element EXCEPT
                                     !.bool = IF "bool" \in DOMAIN token.dict
                                              THEN token.dict.bool ELSE @])
                  IN  IF ~sub.ok THEN [ok |-> FALSE, group |-> group]
                      ELSE parse_tokens(Tail(items),
                               [group EXCEPT !.children = Append(@, sub.group)])

RunAlone(ls) ==
    LET parsed == parseString(Join(ls))
    IN  IF ~parsed.ok THEN [ok |-> FALSE, group |-> _get_stack_element]
        ELSE parse_tokens(parsed.items, _get_stack_element)

(***************************************************************************)
(* The vocabulary of the properties: a query as its writer reads it.       *)
(***************************************************************************)
SameText(l, t) == Len(l) = Len(t) /\ \A i \in 1..Len(l) : upper(l[i]) = upper(t[i])
IsOp(l) == \E i \in DOMAIN Keywords : SameText(l, Keywords[i].text)
OpOf(l) == Keywords[CHOOSE i \in DOMAIN Keywords : SameText(l, Keywords[i].text)].match
IsWord(l) == l \notin {LPar, RPar} /\ ~IsOp(l)
OpNames == {Keywords[i].match : i \in DOMAIN Keywords}

\* item (boolean item)* with item = hosts | '(' grammar ')', read off the lexemes
RECURSIVE Scan(_, _, _, _)
Scan(ls, i, expectOperand, depth) ==
    IF i > Len(ls) THEN ~expectOperand /\ depth = 0
    ELSE CASE ls[i] = LPar -> expectOperand /\ Scan(ls, i + 1, TRUE, depth + 1)
           [] ls[i] = RPar -> ~expectOperand /\ depth > 0 /\ Scan(ls, i + 1, FALSE, depth - 1)
           [] IsOp(ls[i]) -> ~expectOperand /\ Scan(ls, i + 1, TRUE, depth)
           [] OTHER -> expectOperand /\ Scan(ls, i + 1, FALSE, depth)
WellFormed(ls) == Scan(ls, 1, TRUE, 0)

Opened(ls, i) == Cardinality({j \in 1..i : ls[j] = LPar})
                 - Cardinality({j \in 1..i : ls[j] = RPar})
NestingDepth(ls) ==
    IF ls = <<>> THEN 0
    ELSE CHOOSE d \in 0..Len(ls) :
            /\ \E i \in 1..Len(ls) : Opened(ls, i) = d \/ (d = 0 /\ Opened(ls, i) < 0)
            /\ \A i \in 1..Len(ls) : Opened(ls, i) <= d

\* the positions of a set of indices, in increasing order
Ordered(S) == [k \in 1..Cardinality(S) |->
                  CHOOSE i \in S : Cardinality({j \in S : j <= i}) = k]
\* where an operand begins: a word, or the parenthesis that opens a subgroup
Starts(ls) == Ordered({i \in 1..Len(ls) : ls[i] = LPar \/ IsWord(ls[i])})
WordsOf(ls) == SelectSeq(ls, IsWord)
OpsOf(ls) == SelectSeq(ls, IsOp)
PrecedingOp(ls, i) == IF i > 1 /\ IsOp(ls[i - 1]) THEN OpOf(ls[i - 1]) ELSE None

HostsOf(w) == fromlist(<<w>>).set
Expands(w) == fromlist(<<w>>).ok
Leaf(w, b) == [hosts |-> SomeHosts(HostsOf(w)), children |-> <<>>, bool |-> b]
IsLeaf(n) == n.hosts # NoHosts
HasOp(n) == n.bool # None

\* the operands of a tree in textual order, each before the operands inside it
RECURSIVE NodesOf(_)
NodesOf(children) ==
    IF children = <<>> THEN <<>>
    ELSE <<Head(children)>> \o NodesOf(Head(children).children) \o NodesOf(Tail(children))

RECURSIVE AllNodes(_)
AllNodes(stk) == IF stk = <<>> THEN <<>> ELSE NodesOf(Head(stk).children) \o AllNodes(Tail(stk))
LeafCount(stk) == Len(SelectSeq(AllNodes(stk), IsLeaf))

RECURSIVE GroupShape(_)
GroupShape(el) ==
    IF IsLeaf(el) THEN el.children = <<>>
    ELSE /\ el.children # <<>>
         /\ el.children[1].bool = None
         /\ \A i \in 2..Len(el.children) : el.children[i].bool \in OpNames
         /\ \A i \in 1..Len(el.children) : GroupShape(el.children[i])

Root(p) == stack[p][1]

(***************************************************************************)
(* C1: a query is parsed only if its lexemes match item (boolean item)*;   *)
(* every structurally invalid query (empty, unmatched parenthesis, two     *)
(* operators in a row, a leading or trailing operator, "()") fails with    *)
(* InvalidQueryError and yields no host set.                               *)
(***************************************************************************)
C1_InvalidQueriesFail ==
    \A p \in DOMAIN input :
        /\ pc[p] \in {"parsing", "done"} => WellFormed(input[p])
        /\ (~WellFormed(input[p]) /\ pc[p] # "ready") =>
               /\ pc[p] = "failed"
               /\ error[p] = "InvalidQueryError"
               /\ result[p] = NoResult

C1_Witness ==
    \E p \in DOMAIN input :
        /\ input[p] = <<WordA, KwAnd.text, KwAnd.text, WordA>>
        /\ pc[p] = "failed"
        /\ error[p] = "InvalidQueryError"

(***************************************************************************)
(* C2: "A op1 B op2 C" is built as one group of three sibling operands in  *)
(* textual order carrying the operators (none, op1, op2), and its value is *)
(* (A op1 B) op2 C: no operator binds tighter than another.                *)
(***************************************************************************)
Apply(op, X, Y) ==
    CASE op = "and" -> X \cap Y
      [] op = "or" -> X \cup Y
      [] op = "and not" -> X \ Y
      [] op = "xor" -> (X \ Y) \cup (Y \ X)

IsFlatTriple(ls) ==
    /\ Len(ls) = 5
    /\ IsWord(ls[1]) /\ IsOp(ls[2]) /\ IsWord(ls[3]) /\ IsOp(ls[4]) /\ IsWord(ls[5])

C2_LeftToRight ==
    \A p \in DOMAIN input :
        (IsFlatTriple(input[p]) /\ pc[p] # "ready") =>
            /\ pc[p] # "failed"
            /\ pc[p] = "done" =>
                  /\ Root(p).children =
                        <<Leaf(input[p][1], None),
                          Leaf(input[p][3], OpOf(input[p][2])),
                          Leaf(input[p][5], OpOf(input[p][4]))>>
                  /\ result[p] =
                        <<Apply(OpOf(input[p][4]),
                                Apply(OpOf(input[p][2]), HostsOf(input[p][1]),
                                      HostsOf(input[p][3])),
                                HostsOf(input[p][5]))>>

\* "a and b or b": (A and B) or C = {b}, while A and (B or C) is empty
C2_Witness ==
    \E p \in DOMAIN input :
        /\ input[p] = <<WordA, KwAnd.text, WordB, KwOr.text, WordB>>
        /\ pc[p] = "done"
        /\ result[p] = <<{WordB}>>
        /\ result[p] # <<HostsOf(WordA) \cap (HostsOf(WordB) \cup HostsOf(WordB))>>

(***************************************************************************)
(* C3: a word of host characters that begins, in any letter case, with the *)
(* letters of a keyword (and, or, xor) and goes on with at least one more  *)
(* host character is accepted as a query and gives exactly one hosts       *)
(* operand holding the whole word.                                         *)
(***************************************************************************)
IsKeywordPrefixed(w) ==
    /\ \A i \in 1..Len(w) : w[i] \in hostChars
    /\ \E t \in {KwAnd.text, KwXor.text, KwOr.text} :
          Len(w) > Len(t) /\ SameText(SubSeq(w, 1, Len(t)), t)

C3_KeywordPrefixedWordIsHost ==
    \A p \in DOMAIN input :
        (Len(input[p]) = 1 /\ IsKeywordPrefixed(input[p][1]) /\ pc[p] # "ready") =>
            /\ error[p] # "InvalidQueryError"
            /\ pc[p] = "parsing" =>
                  /\ Len(frames[p][1].items) = 1
                  /\ frames[p][1].items[1].dict = [hosts |-> <<input[p][1]>>]

(***************************************************************************)
(* C4: an operator written immediately before '(' is attached to the       *)
(* subgroup as an operand of its parent; the first child inside the        *)
(* subgroup carries no operator, and the operator is attached to nothing   *)
(* else, at every nesting depth.                                           *)
(***************************************************************************)
C4_OperatorBeforeParenthesis ==
    \A p \in DOMAIN input :
        pc[p] = "done" =>
            LET nodes == NodesOf(Root(p).children)
                starts == Starts(input[p])
            IN  /\ Len(nodes) = Len(starts)
                /\ \A k \in 1..Len(starts) :
                      input[p][starts[k]] = LPar =>
                          /\ ~IsLeaf(nodes[k])
                          /\ nodes[k].bool = PrecedingOp(input[p], starts[k])
                          /\ nodes[k].children # <<>>
                          /\ nodes[k].children[1] = nodes[k + 1]
                          /\ nodes[k + 1].bool = None
                /\ Len(SelectSeq(nodes, HasOp)) = Len(OpsOf(input[p]))

\* "( b xor ( b ) )": the operator is inside one subgroup and before another
C4_Witness ==
    \E p \in DOMAIN input :
        /\ input[p] = <<LPar, WordB, KwXor.text, LPar, WordB, RPar, RPar>>
        /\ pc[p] = "done"
        /\ Root(p).children[1].children[2].bool = "xor"
        /\ Root(p).children[1].children[2].children[1].bool = None

(***************************************************************************)
(* C5: 'and not' is recognised before 'and', in any letter case: "X and    *)
(* not Y" gives two operands, X with no operator and Y with 'and not',     *)
(* never 'and' followed by a host named "not".                             *)
(***************************************************************************)
IsAndNotPair(ls) ==
    /\ Len(ls) = 3
    /\ IsWord(ls[1]) /\ SameText(ls[2], KwAndNot.text) /\ IsWord(ls[3])

C5_AndNotBeforeAnd ==
    \A p \in DOMAIN input :
        (IsAndNotPair(input[p]) /\ pc[p] # "ready") =>
            /\ pc[p] # "failed"
            /\ pc[p] = "parsing" => Len(frames[p][1].items) = 2
            /\ pc[p] = "done" =>
                  Root(p).children =
                      <<Leaf(input[p][1], None), Leaf(input[p][3], "and not")>>

C5_Witness ==
    \E p \in DOMAIN input :
        /\ input[p] = <<WordA, <<"A", "n", "D", " ", "N", "o", "T">>, WordB>>
        /\ pc[p] = "done"
        /\ Root(p).children[2].bool = "and not"

(***************************************************************************)
(* C6: an error ends the parse at once and the caller gets no tree: when a *)
(* host pattern fails to expand, after earlier siblings or inside an open  *)
(* subgroup, no later operand is processed, nothing is returned, and no    *)
(* query with such a pattern ever completes.                               *)
(***************************************************************************)
BadWords(ls) == {k \in 1..Len(WordsOf(ls)) : ~Expands(WordsOf(ls)[k])}
FirstBad(ls) == CHOOSE k \in BadWords(ls) : \A m \in BadWords(ls) : k <= m

DeepestNesting == (MaxNestTokens - 1) \div 2

C7_DepthLimit ==
    \E D \in 0..(DeepestNesting - 1) :
        \A p \in DOMAIN input :
            (NestingDepth(input[p]) > D /\ pc[p] # "ready") =>
                pc[p] = "failed" /\ error[p] = "InvalidQueryError"

(***************************************************************************)
(* C7, as the code has it: nesting has no limit of its own.  A well-formed *)
(* query is never refused, however deep its subgroups, and _parse_token is *)
(* entered once per nesting level.                                         *)
(***************************************************************************)
C7_NoDepthLimit ==
    \A p \in DOMAIN input :
        (WellFormed(input[p]) /\ pc[p] # "ready") =>
            /\ error[p] # "InvalidQueryError"
            /\ Len(frames[p]) <= NestingDepth(input[p]) + 1
            /\ pc[p] = "failed" => BadWords(input[p]) # {}

C7_Witness ==
    \E p \in DOMAIN input :
        /\ NestingDepth(input[p]) = DeepestNesting
        /\ pc[p] = "parsing"
        /\ Len(frames[p]) = DeepestNesting + 1

(***************************************************************************)
(* C8: two queries parsed at the same time by separate DirectQuery objects *)
(* do not interfere: under every interleaving of their steps each parse    *)
(* ends as it does when run alone, with the same tree and the same hosts.  *)
(***************************************************************************)
C8_NoInterference ==
    \A p \in DOMAIN input :
        /\ pc[p] = "done" =>
              /\ RunAlone(input[p]).ok
              /\ stack[p] = <<RunAlone(input[p]).group>>
              /\ result[p] = <<_execute(RunAlone(input[p]).group)>>
        /\ pc[p] = "failed" => ~RunAlone(input[p]).ok

\* one parse is over while the other, of another query, is inside a subgroup
C8_Witness ==
    /\ DOMAIN input = {1, 2}
    /\ input[1] # input[2]
    /\ pc[1] = "done" /\ Len(Root(1).children) = 2
    /\ pc[2] = "parsing" /\ Len(stack[2]) = 2

C10_Balanced ==
    \A p \in DOMAIN input :
        /\ pc[p] = "parsing" => Len(stack[p]) = Len(frames[p]) /\ Len(stack[p]) >= 1
        /\ pc[p] = "done" => Len(stack[p]) = 1

\* back in the root group after two nested subgroups were opened and closed
C10_Witness ==
    \E p \in DOMAIN input :
        /\ NestingDepth(input[p]) = 2
        /\ pc[p] = "parsing"
        /\ Len(frames[p]) = 1
        /\ Root(p).children # <<>>
        /\ ~IsLeaf(Root(p).children[1])
====
